---- MODULE Spec2Model ----
(***************************************************************************)
(* A state-machine model of prusti-viper's Encoder                         *)
(* (src/prusti-viper/src/encoder/encoder.rs): the memoizing caches, the    *)
(* encoding queue and its drain loop, the builtin, contract, field and     *)
(* type-predicate operations.                                              *)
(***************************************************************************)
EXTENDS Integers, Sequences, FiniteSets, TLC

VARIABLES
    \* the source program environment (self.env, self.spec): fixed after Init
    attrs,                  \* DefId -> (attribute name -> attribute value)
    calls,                  \* ProcedureDefId -> call sites of the body, in order
    mir,                    \* DefId -> basic blocks -> statements
    spec,                   \* TypedSpecificationMap: SpecID -> SpecificationSet
    type_decls,             \* type -> the types of its fields, in order
    type_names,             \* type -> the name TypeEncoder gives its predicate
    usize_bits,             \* mem::size_of::<usize>() * 8 of the encoding host
    \* the fields of struct Encoder
    procedure_contracts,
    builtin_methods,
    builtin_functions,
    procedures,
    pure_functions,
    type_predicate_names,
    predicate_types,
    type_predicates,
    fields,
    closure_instantiations,
    encoding_queue,
    \* control: the position inside process_encoding_queue, the panic state,
    \* and the last call with the value it returned
    pc,
    stack,                  \* the calls in progress in the type-predicate registry
    panic,
    ret,
    \* observation counters: how often each computation has run
    runs,
    initialize_calls,
    seeded,                 \* ids the driver put on the queue itself
    enqueued,               \* ids ever passed to queue_encoding
    demanded,               \* ids whose definition the driver demanded directly
    used                    \* builtin kinds whose use operation has returned,
                            \* contract views that were requested

envVars   == <<attrs, calls, mir, spec, type_decls, type_names, usize_bits>>
typeVars  == <<type_predicate_names, predicate_types, type_predicates, fields>>
cacheVars == <<procedure_contracts, builtin_methods, builtin_functions,
               procedures, pure_functions, typeVars>>
histVars  == <<runs, initialize_calls, seeded, enqueued, demanded, used>>
vars == <<attrs, calls, mir, spec, type_decls, type_names, usize_bits,
          procedure_contracts, builtin_methods,
          builtin_functions, procedures, pure_functions,
          type_predicate_names, predicate_types, type_predicates, fields,
          closure_instantiations, encoding_queue, pc, stack, panic, ret,
          runs, initialize_calls, seeded, enqueued, demanded, used>>

----------------------------------------------------------------------------
(* Bounds of the model *)

\* how many entries the driver may put on the queue while it holds fewer
MaxQueue == 2
\* how many times the driver calls process_encoding_queue
MaxProcessCalls == 2

----------------------------------------------------------------------------
(* Identifiers and generic map helpers *)

ProcedureDefId == {"f", "g", "h"}
ClosureDefId == {"c", "d"}
BuiltinMethodKind == {"HavocBool", "HavocInt", "HavocRef"}
BuiltinFunctionKind == {"Unreachable", "Undefined"}

\* the types (ty.sty) of the crate
Ty == {"A", "B"}
PRUSTI_SPEC_ATTR == "__PRUSTI_SPEC"

EmptyMap == [x \in {} |-> 0]

\* HashMap::contains_key
contains_key(m, k) == k \in DOMAIN m

\* HashMap::insert: stores v under k, replacing a value already there
insert(m, k, v) == [x \in (DOMAIN m) \cup {k} |-> IF x = k THEN v ELSE m[x]]

\* HashMap::entry(k).or_insert_with(|| v): stores v only when k is vacant
or_insert_with(m, k, v) == IF k \in DOMAIN m THEN m ELSE insert(m, k, v)

\* Vec::push and Vec::pop (pop takes the LAST element)
push(q, x) == Append(q, x)
pop_value(q) == q[Len(q)]
\* faulty variant: the popped element stays in the Vec
pop_rest_keeps(q) == q
pop_rest(q) == SubSeq(q, 1, Len(q) - 1)

Range(s) == {s[i] : i \in 1..Len(s)}

\* Environment::has_attribute_name
has_attribute_name(id, name) == name \in DOMAIN attrs[id]

NoValue == [none |-> TRUE]
\* the last call: the operation, its argument, how it ended, what it returned
Returned(op, arg, val) == [op |-> op, arg |-> arg, st |-> "returned", val |-> val]
Panicked(op, arg) == [op |-> op, arg |-> arg, st |-> "panicked", val |-> NoValue]
Running(op, arg) == [op |-> op, arg |-> arg, st |-> "running", val |-> NoValue]

----------------------------------------------------------------------------
(* Diagnostic dumps *)

\* The outcome a writer gives to one dump: the index of the first of the
\* three calls (write_all, write_all, flush) that returns Err, 0 when all
\* return Ok.
WriteOutcome == 0..3

\* log_vir_program_before_viper: every result is unwrapped, so the call
\* returns normally exactly when no write failed and panics otherwise.
log_vir_program_before_viper(w) == w = 0

\* log_vir_program_before_foldunfold: the same three unwrapped writes
log_vir_program_before_foldunfold(w) == w = 0

----------------------------------------------------------------------------
(* The encoding queue and the procedure / pure-function caches *)

\* queue_encoding: push on the back of the Vec, no deduplication
queue_encoding(q, id) == push(q, id)

\* The use operation a body translation calls for a callee: the collaborator
\* picks encode_pure_function_use for a pure callee and encode_procedure_use
\* otherwise; both end in queue_encoding.
RECURSIVE UseSites(_, _)
UseSites(q, sites) ==
    IF sites = <<>> THEN q
    ELSE UseSites(queue_encoding(q, Head(sites)), Tail(sites))

\* ProcedureEncoder::encode: the translated method; run numbers the
\* execution of the translation that produced it.
CfgMethod(id, run) == [method |-> id, run |-> run]

\* PureFunctionEncoder::encode_function / encode_bodyless_function
Function(id, has_body, run) == [function |-> id, body |-> has_body, run |-> run]

RunKey(cache, k) == <<cache, k>>
Ran(cache, k) == [runs EXCEPT ![RunKey(cache, k)] = @ + 1]

\* A failed assert!: the call panics before it has touched anything.
AssertFailed(q, op, id) ==
    /\ panic' = "assert"
    /\ ret' = Panicked(op, id)
    /\ encoding_queue' = q
    /\ UNCHANGED <<procedures, pure_functions, runs, enqueued>>

\* ProcedureEncoder::new(..).encode_name(): the mangled name of the method;
\* it reads the procedure and touches no cache of the Encoder
ProcedureEncoder_encode_name(id) == [name |-> id]

\* faulty variant: an id that is already queued or already translated is not
\* queued again
encode_procedure_use_deduplicates(q, id) ==
    IF has_attribute_name(id, "pure")
    THEN AssertFailed(q, "encode_procedure_use", id)
    ELSE /\ encoding_queue' = IF id \in Range(q) \/ contains_key(procedures, id)
                              THEN q ELSE queue_encoding(q, id)
         /\ enqueued' = enqueued \cup {id}
         /\ ret' = Returned("encode_procedure_use", id,
                            ProcedureEncoder_encode_name(id))
         /\ UNCHANGED <<procedures, pure_functions, runs, panic>>

\* faulty variant: the id is queued before the purity assertion is checked
encode_procedure_use_queues_first(q, id) ==
    IF has_attribute_name(id, "pure")
    THEN /\ panic' = "assert"
         /\ ret' = Panicked("encode_procedure_use", id)
         /\ encoding_queue' = queue_encoding(q, id)
         /\ UNCHANGED <<procedures, pure_functions, runs, enqueued>>
    ELSE /\ encoding_queue' = queue_encoding(q, id)
         /\ enqueued' = enqueued \cup {id}
         /\ ret' = Returned("encode_procedure_use", id,
                            ProcedureEncoder_encode_name(id))
         /\ UNCHANGED <<procedures, pure_functions, runs, panic>>

\* encode_procedure_use (q is the queue when the call starts)
encode_procedure_use(q, id) ==
    IF has_attribute_name(id, "pure")
    THEN AssertFailed(q, "encode_procedure_use", id)
    ELSE /\ encoding_queue' = queue_encoding(q, id)
         /\ enqueued' = enqueued \cup {id}
         /\ ret' = Returned("encode_procedure_use", id,
                            ProcedureEncoder_encode_name(id))
         /\ UNCHANGED <<procedures, pure_functions, runs, panic>>

\* faulty variant: no contains_key test, the body is translated on every call
encode_procedure_uncached(q, id) ==
    IF has_attribute_name(id, "pure") \/ has_attribute_name(id, "trusted")
    THEN AssertFailed(q, "encode_procedure", id)
    ELSE LET method == CfgMethod(id, runs[RunKey("procedures", id)] + 1) IN
         /\ runs' = Ran("procedures", id)
         /\ encoding_queue' = UseSites(q, calls[id])
         /\ enqueued' = enqueued \cup Range(calls[id])
         /\ pure_functions' = pure_functions
         /\ procedures' = insert(procedures, id, method)
         /\ ret' = Returned("encode_procedure", id, method)
         /\ panic' = panic

\* faulty variant: the two assertions on the kind of the id are missing
encode_procedure_any_kind(q, id) ==
    IF contains_key(procedures, id)
    THEN /\ ret' = Returned("encode_procedure", id, procedures[id])
         /\ encoding_queue' = q
         /\ UNCHANGED <<procedures, pure_functions, runs, enqueued, panic>>
    ELSE LET method == CfgMethod(id, runs[RunKey("procedures", id)] + 1) IN
         /\ runs' = Ran("procedures", id)
         /\ encoding_queue' = UseSites(q, calls[id])
         /\ enqueued' = enqueued \cup Range(calls[id])
         /\ pure_functions' = pure_functions
         /\ procedures' = insert(procedures, id, method)
         /\ ret' = Returned("encode_procedure", id, method)
         /\ panic' = panic

\* encode_procedure
encode_procedure(q, id) ==
    IF has_attribute_name(id, "pure") \/ has_attribute_name(id, "trusted")
    THEN AssertFailed(q, "encode_procedure", id)
    ELSE IF contains_key(procedures, id)
    THEN /\ ret' = Returned("encode_procedure", id, procedures[id])
         /\ encoding_queue' = q
         /\ UNCHANGED <<procedures, pure_functions, runs, enqueued, panic>>
    ELSE \E w \in WriteOutcome :
         LET method == CfgMethod(id, runs[RunKey("procedures", id)] + 1) IN
         /\ runs' = Ran("procedures", id)
         /\ encoding_queue' = UseSites(q, calls[id])
         /\ enqueued' = enqueued \cup Range(calls[id])
         /\ pure_functions' = pure_functions
         /\ IF log_vir_program_before_viper(w)
            THEN /\ procedures' = insert(procedures, id, method)
                 /\ ret' = Returned("encode_procedure", id, method)
                 /\ panic' = panic
            ELSE /\ procedures' = procedures
                 /\ ret' = Panicked("encode_procedure", id)
                 /\ panic' = "write"

\* faulty variant: the trusted attribute is not looked at, every pure function
\* is encoded with its body
encode_pure_function_def_always_body(q, id) ==
    IF ~has_attribute_name(id, "pure")
    THEN AssertFailed(q, "encode_pure_function_def", id)
    ELSE IF contains_key(pure_functions, id)
    THEN /\ ret' = Returned("encode_pure_function_def", id, pure_functions[id])
         /\ encoding_queue' = q
         /\ UNCHANGED <<procedures, pure_functions, runs, enqueued, panic>>
    ELSE \E w \in WriteOutcome :
         LET function == Function(id, TRUE,
                                  runs[RunKey("pure_functions", id)] + 1)
         IN
         /\ runs' = Ran("pure_functions", id)
         /\ encoding_queue' = UseSites(q, calls[id])
         /\ enqueued' = enqueued \cup Range(calls[id])
         /\ procedures' = procedures
         /\ IF log_vir_program_before_viper(w)
            THEN /\ pure_functions' = insert(pure_functions, id, function)
                 /\ ret' = Returned("encode_pure_function_def", id, function)
                 /\ panic' = panic
            ELSE /\ pure_functions' = pure_functions
                 /\ ret' = Panicked("encode_pure_function_def", id)
                 /\ panic' = "write"

\* encode_pure_function_def
encode_pure_function_def(q, id) ==
    IF ~has_attribute_name(id, "pure")
    THEN AssertFailed(q, "encode_pure_function_def", id)
    ELSE IF contains_key(pure_functions, id)
    THEN /\ ret' = Returned("encode_pure_function_def", id, pure_functions[id])
         /\ encoding_queue' = q
         /\ UNCHANGED <<procedures, pure_functions, runs, enqueued, panic>>
    ELSE \E w \in WriteOutcome :
         LET is_trusted == has_attribute_name(id, "trusted")
             function == Function(id, ~is_trusted,
                                  runs[RunKey("pure_functions", id)] + 1)
             sites == IF is_trusted THEN <<>> ELSE calls[id]
         IN
         /\ runs' = Ran("pure_functions", id)
         /\ encoding_queue' = UseSites(q, sites)
         /\ enqueued' = enqueued \cup Range(sites)
         /\ procedures' = procedures
         /\ IF log_vir_program_before_viper(w)
            THEN /\ pure_functions' = insert(pure_functions, id, function)
                 /\ ret' = Returned("encode_pure_function_def", id, function)
                 /\ panic' = panic
            ELSE /\ pure_functions' = pure_functions
                 /\ ret' = Panicked("encode_pure_function_def", id)
                 /\ panic' = "write"

\* PureFunctionEncoder::encode_body: the translated body expression
Body(id, run) == [body |-> id, run |-> run]

\* encode_pure_function_body: no test, no cache; the body is translated and
\* its call sites are queued at every call
encode_pure_function_body(q, id) ==
    LET body == Body(id, runs[RunKey("pure_function_bodies", id)] + 1) IN
    /\ runs' = Ran("pure_function_bodies", id)
    /\ encoding_queue' = UseSites(q, calls[id])
    /\ enqueued' = enqueued \cup Range(calls[id])
    /\ ret' = Returned("encode_pure_function_body", id, body)
    /\ UNCHANGED <<procedures, pure_functions, panic>>

\* encode_pure_function_use
encode_pure_function_use(q, id) ==
    IF ~has_attribute_name(id, "pure")
    THEN AssertFailed(q, "encode_pure_function_use", id)
    ELSE /\ encoding_queue' = queue_encoding(q, id)
         /\ enqueued' = enqueued \cup {id}
         /\ ret' = Returned("encode_pure_function_use", id, [name |-> id])
         /\ UNCHANGED <<procedures, pure_functions, runs, panic>>

\* encode_pure_function_return_type
encode_pure_function_return_type(q, id) ==
    IF ~has_attribute_name(id, "pure")
    THEN AssertFailed(q, "encode_pure_function_return_type", id)
    ELSE /\ encoding_queue' = queue_encoding(q, id)
         /\ enqueued' = enqueued \cup {id}
         /\ ret' = Returned("encode_pure_function_return_type", id, [type |-> id])
         /\ UNCHANGED <<procedures, pure_functions, runs, panic>>

----------------------------------------------------------------------------
(* The closure instantiation index *)

\* tcx.mir_keys(LOCAL_CRATE), in its iteration order
mir_keys == <<"f", "g", "h">>

ClosureStmt(cl_def_id, operands) ==
    [kind |-> "Closure", def_id |-> cl_def_id, operands |-> operands]
OtherStmt == [kind |-> "Other", def_id |-> "", operands |-> <<>>]

\* faulty variant: every body is scanned, marked or not
is_spec_body_any(mir_def_id) == TRUE

\* the five attributes that mark a body as part of the specification surface
is_spec_body(mir_def_id) ==
    \/ has_attribute_name(mir_def_id, "__PRUSTI_LOOP_SPEC_ID")
    \/ has_attribute_name(mir_def_id, "__PRUSTI_EXPR_ID")
    \/ has_attribute_name(mir_def_id, "__PRUSTI_FORALL_ID")
    \/ has_attribute_name(mir_def_id, "__PRUSTI_SPEC_ONLY")
    \/ has_attribute_name(mir_def_id, PRUSTI_SPEC_ATTR)

\* the statements of one basic block, from statement index stmt_index on
RECURSIVE ScanStatements(_, _, _, _)
ScanStatements(acc, mir_def_id, bb_index, stmt_index) ==
    LET statements == mir[mir_def_id][bb_index + 1] IN
    IF stmt_index >= Len(statements) THEN acc
    ELSE LET stmt == statements[stmt_index + 1]
             instantiations == IF contains_key(acc, stmt.def_id)
                               THEN acc[stmt.def_id] ELSE <<>>
             next == IF stmt.kind = "Closure"
                     THEN insert(acc, stmt.def_id,
                                 Append(instantiations,
                                        <<mir_def_id, bb_index, stmt_index,
                                          stmt.operands>>))
                     ELSE acc
         IN ScanStatements(next, mir_def_id, bb_index, stmt_index + 1)

RECURSIVE ScanBlocks(_, _, _)
ScanBlocks(acc, mir_def_id, bb_index) ==
    IF bb_index >= Len(mir[mir_def_id]) THEN acc
    ELSE ScanBlocks(ScanStatements(acc, mir_def_id, bb_index, 0),
                    mir_def_id, bb_index + 1)

RECURSIVE ScanKeys(_, _)
ScanKeys(acc, keys) ==
    IF keys = <<>> THEN acc
    ELSE ScanKeys(IF is_spec_body(Head(keys))
                  THEN ScanBlocks(acc, Head(keys), 0) ELSE acc,
                  Tail(keys))

\* collect_closure_instantiations: the map assigned to the field
collect_closure_instantiations == ScanKeys(EmptyMap, mir_keys)

\* initialize
initialize ==
    /\ closure_instantiations' = collect_closure_instantiations
    /\ initialize_calls' = initialize_calls + 1

\* get_closure_instantiations
get_closure_instantiations(closure_def_id) ==
    IF contains_key(closure_instantiations, closure_def_id)
    THEN closure_instantiations[closure_def_id] ELSE <<>>

CallGetClosureInstantiations ==
    /\ pc = "idle" /\ panic = "none"
    /\ \E closure_def_id \in ClosureDefId :
          ret' = Returned("get_closure_instantiations", closure_def_id,
                          [instantiations |->
                              get_closure_instantiations(closure_def_id)])
    /\ UNCHANGED <<envVars, cacheVars, closure_instantiations, encoding_queue,
                   pc, stack, panic, histVars>>

----------------------------------------------------------------------------
(* process_encoding_queue: initialize, then the drain loop, one iteration  *)
(* per step                                                                *)

otherCaches == <<procedure_contracts, builtin_methods, builtin_functions,
                 typeVars, stack, used>>

ProcessStart ==
    /\ pc = "idle" /\ panic = "none"
    /\ initialize_calls < MaxProcessCalls
    /\ initialize
    /\ pc' = "draining"
    /\ ret' = Running("process_encoding_queue", "")
    /\ UNCHANGED <<envVars, otherCaches, procedures, pure_functions,
                   encoding_queue, panic, runs, seeded, enqueued, demanded>>

\* faulty variant: the trusted test comes before the pure test
DrainBody_trusted_first(q, proc_def_id) ==
    IF has_attribute_name(proc_def_id, "trusted")
    THEN /\ encoding_queue' = q
         /\ ret' = Returned("skip", proc_def_id, NoValue)
         /\ UNCHANGED <<procedures, pure_functions, runs, enqueued, panic>>
    ELSE IF has_attribute_name(proc_def_id, "pure")
    THEN encode_pure_function_def(q, proc_def_id)
    ELSE encode_procedure(q, proc_def_id)

\* faulty variant: the loop takes every body of the crate as work, not only the
\* ids that were queued
DrainBody_whole_crate(q, proc_def_id) ==
    LET all == UseSites(q, mir_keys) IN
    IF has_attribute_name(proc_def_id, "pure")
    THEN encode_pure_function_def(all, proc_def_id)
    ELSE IF has_attribute_name(proc_def_id, "trusted")
    THEN /\ encoding_queue' = all
         /\ ret' = Returned("skip", proc_def_id, NoValue)
         /\ UNCHANGED <<procedures, pure_functions, runs, enqueued, panic>>
    ELSE encode_procedure(all, proc_def_id)

\* the body of the while loop
DrainBody(q, proc_def_id) ==
    LET is_pure_function == has_attribute_name(proc_def_id, "pure")
        is_trusted == has_attribute_name(proc_def_id, "trusted")
    IN IF is_pure_function
       THEN encode_pure_function_def(q, proc_def_id)
       ELSE IF is_trusted
       THEN /\ encoding_queue' = q
            /\ ret' = Returned("skip", proc_def_id, NoValue)
            /\ UNCHANGED <<procedures, pure_functions, runs, enqueued, panic>>
       ELSE encode_procedure(q, proc_def_id)

DrainStep ==
    /\ pc = "draining" /\ panic = "none"
    /\ encoding_queue # <<>>
    /\ DrainBody(pop_rest(encoding_queue), pop_value(encoding_queue))
    /\ UNCHANGED <<envVars, otherCaches, closure_instantiations, pc,
                   initialize_calls, seeded, demanded>>

ProcessReturn ==
    /\ pc = "draining" /\ panic = "none"
    /\ encoding_queue = <<>>
    /\ pc' = "idle"
    /\ ret' = Returned("process_encoding_queue", "", NoValue)
    /\ UNCHANGED <<envVars, cacheVars, closure_instantiations, encoding_queue,
                   stack, panic, histVars>>

\* The loop of process_encoding_queue with the position of the id it takes
\* left open: Vec::pop takes position Len(q); any other total order of
\* processing takes some other position and leaves the rest in place.
take_value(q, i) == q[i]
\* faulty variant: everything queued behind the taken id is lost
take_rest_truncates(q, i) == SubSeq(q, 1, i - 1)
take_rest(q, i) == SubSeq(q, 1, i - 1) \o SubSeq(q, i + 1, Len(q))

DrainStepAnyOrder ==
    /\ pc = "draining" /\ panic = "none"
    /\ encoding_queue # <<>>
    /\ \E i \in 1..Len(encoding_queue) :
        /\ DrainBody(take_rest(encoding_queue, i), take_value(encoding_queue, i))
        /\ used' = used \cup
              {<<"taken", IF i = Len(encoding_queue) THEN "last" ELSE "other">>}
    /\ UNCHANGED <<envVars, procedure_contracts, builtin_methods,
                   builtin_functions, typeVars, stack, closure_instantiations,
                   pc, initialize_calls, seeded, demanded>>

----------------------------------------------------------------------------
(* The driver: calls of the public operations between drains *)

driverFrame == <<envVars, otherCaches, closure_instantiations, pc,
                 initialize_calls>>

Idle == pc = "idle" /\ panic = "none"

\* the driver seeding the queue with entry procedures before the pass
SeedQueue ==
    /\ Idle /\ initialize_calls = 0
    /\ Len(encoding_queue) < MaxQueue
    /\ \E id \in ProcedureDefId :
        /\ encoding_queue' = queue_encoding(encoding_queue, id)
        /\ enqueued' = enqueued \cup {id}
        /\ ret' = Returned("queue_encoding", id, NoValue)
        /\ seeded' = seeded \cup {id}
    /\ UNCHANGED <<driverFrame, procedures, pure_functions, panic, runs,
                   demanded>>

CallEncodeProcedureUse ==
    /\ Idle /\ Len(encoding_queue) < MaxQueue
    /\ \E id \in ProcedureDefId : encode_procedure_use(encoding_queue, id)
    /\ UNCHANGED <<driverFrame, seeded, demanded>>

CallEncodePureFunctionUse ==
    /\ Idle /\ Len(encoding_queue) < MaxQueue
    /\ \E id \in ProcedureDefId : encode_pure_function_use(encoding_queue, id)
    /\ UNCHANGED <<driverFrame, seeded, demanded>>

CallEncodePureFunctionReturnType ==
    /\ Idle /\ Len(encoding_queue) < MaxQueue
    /\ \E id \in ProcedureDefId :
            encode_pure_function_return_type(encoding_queue, id)
    /\ UNCHANGED <<driverFrame, seeded, demanded>>

CallEncodeProcedure ==
    /\ Idle
    /\ \E id \in ProcedureDefId :
        /\ encode_procedure(encoding_queue, id)
        /\ demanded' = demanded \cup {id}
    /\ UNCHANGED <<driverFrame, seeded>>

\* how many times the driver asks for the body of one pure function
MaxBodyRuns == 2

CallEncodePureFunctionBody ==
    /\ Idle
    /\ \E id \in ProcedureDefId :
        /\ has_attribute_name(id, "pure")
        /\ runs[RunKey("pure_function_bodies", id)] < MaxBodyRuns
        /\ encode_pure_function_body(encoding_queue, id)
    /\ UNCHANGED <<driverFrame, seeded, demanded>>

CallEncodePureFunctionDef ==
    /\ Idle
    /\ \E id \in ProcedureDefId :
        /\ encode_pure_function_def(encoding_queue, id)
        /\ demanded' = demanded \cup {id}
    /\ UNCHANGED <<driverFrame, seeded>>

----------------------------------------------------------------------------
(* Builtin methods and functions *)

\* BuiltinEncoder::encode_builtin_method_def / encode_builtin_function_def
BodylessMethod(method_kind, run) == [builtin_method |-> method_kind, run |-> run]
BuiltinFunction(function_kind, run) == [builtin_function |-> function_kind, run |-> run]

\* BuiltinEncoder::encode_builtin_method_name / encode_builtin_function_name
encode_builtin_method_name(method_kind) == [name |-> <<"builtin_method", method_kind>>]
encode_builtin_function_name(function_kind) == [name |-> <<"builtin_function", function_kind>>]

\* encode_builtin_method_def, executed as public operation op (itself, or the
\* use operation that triggers it); val is what op returns on success
encode_builtin_method_def(op, method_kind, val) ==
    IF ~contains_key(builtin_methods, method_kind)
    THEN \E w \in WriteOutcome :
         LET method == BodylessMethod(method_kind,
                           runs[RunKey("builtin_methods", method_kind)] + 1) IN
         /\ runs' = Ran("builtin_methods", method_kind)
         /\ IF log_vir_program_before_viper(w)
            THEN /\ builtin_methods' = insert(builtin_methods, method_kind, method)
                 /\ ret' = Returned(op, method_kind,
                                    IF op = "encode_builtin_method_def"
                                    THEN method ELSE val)
                 /\ panic' = panic
            ELSE /\ builtin_methods' = builtin_methods
                 /\ ret' = Panicked(op, method_kind)
                 /\ panic' = "write"
    ELSE /\ ret' = Returned(op, method_kind,
                            IF op = "encode_builtin_method_def"
                            THEN builtin_methods[method_kind] ELSE val)
         /\ UNCHANGED <<builtin_methods, runs, panic>>

\* faulty variant: the use operation returns the name and never triggers the definition
encode_builtin_method_use_name_only(method_kind) ==
    /\ ret' = Returned("encode_builtin_method_use", method_kind,
                       encode_builtin_method_name(method_kind))
    /\ used' = used \cup {<<"method", method_kind>>}
    /\ UNCHANGED <<builtin_methods, runs, panic>>

\* encode_builtin_method_use
encode_builtin_method_use(method_kind) ==
    /\ encode_builtin_method_def("encode_builtin_method_use", method_kind,
                                 encode_builtin_method_name(method_kind))
    /\ used' = IF panic' = "none" THEN used \cup {<<"method", method_kind>>}
               ELSE used

\* encode_builtin_function_def
encode_builtin_function_def(op, function_kind, val) ==
    IF ~contains_key(builtin_functions, function_kind)
    THEN \E w \in WriteOutcome :
         LET function == BuiltinFunction(function_kind,
                           runs[RunKey("builtin_functions", function_kind)] + 1) IN
         /\ runs' = Ran("builtin_functions", function_kind)
         /\ IF log_vir_program_before_viper(w)
            THEN /\ builtin_functions' = insert(builtin_functions, function_kind, function)
                 /\ ret' = Returned(op, function_kind,
                                    IF op = "encode_builtin_function_def"
                                    THEN function ELSE val)
                 /\ panic' = panic
            ELSE /\ builtin_functions' = builtin_functions
                 /\ ret' = Panicked(op, function_kind)
                 /\ panic' = "write"
    ELSE /\ ret' = Returned(op, function_kind,
                            IF op = "encode_builtin_function_def"
                            THEN builtin_functions[function_kind] ELSE val)
         /\ UNCHANGED <<builtin_functions, runs, panic>>

\* encode_builtin_function_use
encode_builtin_function_use(function_kind) ==
    /\ encode_builtin_function_def("encode_builtin_function_use", function_kind,
                                   encode_builtin_function_name(function_kind))
    /\ used' = IF panic' = "none" THEN used \cup {<<"function", function_kind>>}
               ELSE used

Values(m) == {m[k] : k \in DOMAIN m}

\* get_used_viper_methods / get_used_viper_functions / get_used_viper_fields /
\* get_used_viper_predicates: the values of the caches
get_used_viper_methods == Values(builtin_methods) \cup Values(procedures)
get_used_viper_functions == Values(builtin_functions) \cup Values(pure_functions)
get_used_viper_fields == Values(fields)
get_used_viper_predicates == Values(type_predicates)

builtinFrame == <<envVars, procedure_contracts, procedures, pure_functions,
                  typeVars, closure_instantiations, encoding_queue, pc, stack,
                  initialize_calls, seeded, enqueued, demanded>>

CallBuiltinMethodDef ==
    /\ Idle
    /\ \E k \in BuiltinMethodKind :
          encode_builtin_method_def("encode_builtin_method_def", k, NoValue)
    /\ UNCHANGED <<builtinFrame, builtin_functions, used>>

CallBuiltinMethodUse ==
    /\ Idle
    /\ \E k \in BuiltinMethodKind : encode_builtin_method_use(k)
    /\ UNCHANGED <<builtinFrame, builtin_functions>>

CallBuiltinFunctionDef ==
    /\ Idle
    /\ \E k \in BuiltinFunctionKind :
          encode_builtin_function_def("encode_builtin_function_def", k, NoValue)
    /\ UNCHANGED <<builtinFrame, builtin_methods, used>>

CallBuiltinFunctionUse ==
    /\ Idle
    /\ \E k \in BuiltinFunctionKind : encode_builtin_function_use(k)
    /\ UNCHANGED <<builtinFrame, builtin_methods>>

----------------------------------------------------------------------------
(* Procedure contracts *)

\* Option<T>
None == <<>>
Some(x) == <<x>>

Digits == <<"0", "1", "2", "3", "4", "5", "6", "7", "8", "9">>
IsDigit(c) == \E i \in 1..Len(Digits) : Digits[i] = c
DigitValue(c) == (CHOOSE i \in 1..Len(Digits) : Digits[i] = c) - 1

RECURSIVE Decimal(_, _)
Decimal(acc, s) ==
    IF s = <<>> THEN acc ELSE Decimal(acc * 10 + DigitValue(Head(s)), Tail(s))

\* str::parse::<u64>().ok(): an optional "+", then at least one digit and
\* nothing but digits (the strings of the model are too short to overflow)
parse_u64(s) ==
    LET digits == IF s # <<>> /\ Head(s) = "+" THEN Tail(s) ELSE s IN
    IF digits = <<>> \/ \E i \in 1..Len(digits) : ~IsDigit(digits[i])
    THEN None
    ELSE Some(Decimal(0, digits))

\* SpecificationSet::Procedure(pre, post); an assertion is named by the
\* formal place it constrains
Procedure(pre, post) == [pre |-> pre, post |-> post]

\* borrows::compute_procedure_contract: a contract over the formal places
compute_procedure_contract(proc_def_id, fun_spec) ==
    [def_id |-> proc_def_id, args |-> <<"_1">>, returned |-> "_0",
     pre |-> fun_spec.pre, post |-> fun_spec.post]

\* faulty variant: a procedure without specification gets the precondition false
get_procedure_contract_default_false(proc_def_id) ==
    LET opt_spec_id ==
            IF has_attribute_name(proc_def_id, PRUSTI_SPEC_ATTR)
            THEN LET value_str == attrs[proc_def_id][PRUSTI_SPEC_ATTR] IN
                 IF value_str = None THEN None ELSE parse_u64(value_str[1])
            ELSE None
        opt_fun_spec ==
            IF opt_spec_id # None /\ contains_key(spec, opt_spec_id[1])
            THEN Some(spec[opt_spec_id[1]]) ELSE None
        fun_spec == IF opt_fun_spec # None THEN opt_fun_spec[1]
                    ELSE Procedure(<<"false">>, <<>>)
    IN compute_procedure_contract(proc_def_id, fun_spec)

\* get_procedure_contract
get_procedure_contract(proc_def_id) ==
    LET opt_spec_id ==
            IF has_attribute_name(proc_def_id, PRUSTI_SPEC_ATTR)
            THEN LET value_str == attrs[proc_def_id][PRUSTI_SPEC_ATTR] IN
                 IF value_str = None THEN None ELSE parse_u64(value_str[1])
            ELSE None
        opt_fun_spec ==
            IF opt_spec_id # None /\ contains_key(spec, opt_spec_id[1])
            THEN Some(spec[opt_spec_id[1]]) ELSE None
        fun_spec == IF opt_fun_spec # None THEN opt_fun_spec[1]
                    ELSE Procedure(<<>>, <<>>)
    IN compute_procedure_contract(proc_def_id, fun_spec)

\* ProcedureContractMirDef::to_def_site_contract: the formals stay the
\* procedure's own locals
to_def_site_contract(contract) ==
    [args |-> contract.args, target |-> contract.returned,
     pre |-> contract.pre, post |-> contract.post]

\* ProcedureContractMirDef::to_call_site_contract: every formal is replaced
\* by the actual place of the call
to_call_site_contract(contract, args, target) ==
    LET actual(place) ==
            IF place = contract.returned THEN target
            ELSE IF \E i \in 1..Len(contract.args) : contract.args[i] = place
            THEN args[CHOOSE i \in 1..Len(contract.args) : contract.args[i] = place]
            ELSE place
    IN [args |-> args, target |-> target,
        pre |-> [i \in 1..Len(contract.pre) |-> actual(contract.pre[i])],
        post |-> [i \in 1..Len(contract.post) |-> actual(contract.post[i])]]

\* faulty variant: the contract is computed and stored at every request
contract_entry_recomputed(proc_def_id) ==
    /\ procedure_contracts' = insert(procedure_contracts, proc_def_id,
                                     get_procedure_contract(proc_def_id))
    /\ runs' = Ran("procedure_contracts", proc_def_id)

\* entry(proc_def_id).or_insert_with(|| self.get_procedure_contract(..))
contract_entry(proc_def_id) ==
    /\ procedure_contracts' = or_insert_with(procedure_contracts, proc_def_id,
                                             get_procedure_contract(proc_def_id))
    /\ runs' = IF contains_key(procedure_contracts, proc_def_id) THEN runs
               ELSE Ran("procedure_contracts", proc_def_id)

\* get_procedure_contract_for_def
get_procedure_contract_for_def(proc_def_id) ==
    /\ contract_entry(proc_def_id)
    /\ ret' = Returned("get_procedure_contract_for_def", proc_def_id,
                       to_def_site_contract(procedure_contracts'[proc_def_id]))

\* get_procedure_contract_for_call
get_procedure_contract_for_call(proc_def_id, args, target) ==
    /\ contract_entry(proc_def_id)
    /\ ret' = Returned("get_procedure_contract_for_call", proc_def_id,
                       to_call_site_contract(procedure_contracts'[proc_def_id],
                                             args, target))

contractFrame == <<envVars, builtin_methods, builtin_functions, procedures,
                   pure_functions, typeVars, closure_instantiations,
                   encoding_queue, pc, stack, panic, initialize_calls, seeded,
                   enqueued, demanded>>

\* the places a call site passes
CallArgs == {<<"x">>, <<"y">>}
CallTargets == {"t"}

CallContractForDef ==
    /\ Idle
    /\ \E id \in ProcedureDefId :
          /\ get_procedure_contract_for_def(id)
          /\ used' = used \cup {<<"def_view", id>>}
    /\ UNCHANGED contractFrame

CallContractForCall ==
    /\ Idle
    /\ \E id \in ProcedureDefId, args \in CallArgs, target \in CallTargets :
          /\ get_procedure_contract_for_call(id, args, target)
          /\ used' = used \cup {<<"call_view", id>>}
    /\ UNCHANGED contractFrame

----------------------------------------------------------------------------
(* Fields and type predicates *)

\* vir::Field::new(name, type), vir::Type::TypedRef(name), vir::Type::Int
Field(name, type) == [name |-> name, type |-> type]
TypedRef(name) == [typed_ref |-> name]
Int_type == [int |-> TRUE]

\* vir::Predicate: its name and the fields its body unfolds
Predicate(name, body, run) == [name |-> name, body |-> body, run |-> run]

\* TypeEncoder::encode_predicate_use: the name the type encoder gives a type
encode_predicate_use(ty) == type_names[ty]

\* TypeEncoder::encode_value_field: a reference's value field
TypeEncoder_encode_value_field(ty) ==
    Field("val_ref", TypedRef(encode_predicate_use(ty)))

\* the name of the i-th declared field of a type
FieldNames == <<"f0", "f1", "f2">>

\* an activation record of one of the mutually recursive operations
Frame(fn, ty, field_name) ==
    [fn |-> fn, ty |-> ty, field_name |-> field_name, pc |-> 0,
     i |-> 1, body |-> <<>>, predicate_name |-> "", res |-> NoValue]

Top == stack[Len(stack)]
OpOf(frame) == CASE frame.fn = "use" -> "encode_type_predicate_use"
                 [] frame.fn = "def" -> "encode_type_predicate_def"
                 [] frame.fn = "ref_field" -> "encode_ref_field"
ArgOf(frame) == IF frame.fn = "ref_field" THEN <<frame.field_name, frame.ty>>
                ELSE frame.ty

\* the top activation moves on / calls / returns val to its caller
Goto(frame) == stack' = [stack EXCEPT ![Len(stack)] = frame]
Call(frame, callee) == stack' = Append([stack EXCEPT ![Len(stack)] = frame], callee)
Return(val) ==
    IF Len(stack) = 1
    THEN /\ stack' = <<>>
         /\ ret' = Returned(OpOf(Top), ArgOf(Top), val)
    ELSE /\ stack' = [SubSeq(stack, 1, Len(stack) - 1)
                         EXCEPT ![Len(stack) - 1].res = val]
         /\ ret' = ret
\* a panic unwinds through every activation: the outermost call never returns
Unwind(why) ==
    /\ panic' = why
    /\ ret' = Panicked(OpOf(stack[1]), ArgOf(stack[1]))
    /\ stack' = stack

\* faulty variant: a new name is registered without triggering the encoding of
\* the definition
encode_type_predicate_use_name_only(ty) ==
    IF Top.pc = 0 /\ ~contains_key(type_predicate_names, ty)
    THEN /\ type_predicate_names' =
                insert(type_predicate_names, ty, encode_predicate_use(ty))
         /\ runs' = Ran("type_predicate_names", ty)
         /\ Goto([Top EXCEPT !.pc = 1])
         /\ UNCHANGED <<predicate_types, type_predicates, fields, panic, ret>>
    ELSE LET predicate_name == type_predicate_names[ty] IN
         /\ predicate_types' = insert(predicate_types, predicate_name, ty)
         /\ Return([name |-> predicate_name])
         /\ UNCHANGED <<type_predicate_names, type_predicates, fields, runs, panic>>

\* encode_type_predicate_use
encode_type_predicate_use(ty) ==
    IF Top.pc = 0 /\ ~contains_key(type_predicate_names, ty)
    THEN /\ type_predicate_names' =
                insert(type_predicate_names, ty, encode_predicate_use(ty))
         /\ runs' = Ran("type_predicate_names", ty)
         /\ Call([Top EXCEPT !.pc = 1], Frame("def", ty, ""))
         /\ UNCHANGED <<predicate_types, type_predicates, fields, panic, ret>>
    ELSE LET predicate_name == type_predicate_names[ty] IN
         /\ predicate_types' = insert(predicate_types, predicate_name, ty)
         /\ Return([name |-> predicate_name])
         /\ UNCHANGED <<type_predicate_names, type_predicates, fields, runs, panic>>

\* faulty variant: the body is computed whether or not the name already has one
encode_type_predicate_def_unchecked(ty) ==
    CASE Top.pc = 0 ->
           /\ Call([Top EXCEPT !.pc = 1], Frame("use", ty, ""))
           /\ UNCHANGED <<typeVars, runs, panic, ret>>
      [] Top.pc = 1 ->
           /\ runs' = Ran("type_predicates", ty)
           /\ Goto([Top EXCEPT !.pc = 2, !.predicate_name = Top.res.name])
           /\ UNCHANGED <<typeVars, panic, ret>>
      [] Top.pc = 2 /\ Top.i <= Len(type_decls[ty]) ->
           /\ Call([Top EXCEPT !.pc = 3],
                   Frame("ref_field", type_decls[ty][Top.i], FieldNames[Top.i]))
           /\ UNCHANGED <<typeVars, runs, panic, ret>>
      [] Top.pc = 3 ->
           /\ Goto([Top EXCEPT !.pc = 2, !.i = @ + 1,
                               !.body = Append(@, Top.res)])
           /\ UNCHANGED <<typeVars, runs, panic, ret>>
      [] Top.pc = 2 /\ Top.i > Len(type_decls[ty]) ->
           \E w \in WriteOutcome :
           LET predicate_name == Top.predicate_name
               predicate == Predicate(predicate_name, Top.body,
                                      runs[RunKey("type_predicates", ty)]) IN
           IF log_vir_program_before_viper(w)
           THEN /\ type_predicates' = insert(type_predicates, predicate_name, predicate)
                /\ Return(type_predicates'[predicate_name])
                /\ UNCHANGED <<type_predicate_names, predicate_types, fields, runs, panic>>
           ELSE /\ Unwind("write")
                /\ UNCHANGED <<typeVars, runs>>

\* encode_type_predicate_def; positions 2 and 3 are the type encoder's
\* encode_predicate_def, which encodes one reference field per declared field
encode_type_predicate_def(ty) ==
    CASE Top.pc = 0 ->
           /\ Call([Top EXCEPT !.pc = 1], Frame("use", ty, ""))
           /\ UNCHANGED <<typeVars, runs, panic, ret>>
      [] Top.pc = 1 /\ ~contains_key(type_predicates, Top.res.name) ->
           /\ runs' = Ran("type_predicates", ty)
           /\ Goto([Top EXCEPT !.pc = 2, !.predicate_name = Top.res.name])
           /\ UNCHANGED <<typeVars, panic, ret>>
      [] Top.pc = 1 /\ contains_key(type_predicates, Top.res.name) ->
           /\ Return(type_predicates[Top.res.name])
           /\ UNCHANGED <<typeVars, runs, panic>>
      [] Top.pc = 2 /\ Top.i <= Len(type_decls[ty]) ->
           /\ Call([Top EXCEPT !.pc = 3],
                   Frame("ref_field", type_decls[ty][Top.i], FieldNames[Top.i]))
           /\ UNCHANGED <<typeVars, runs, panic, ret>>
      [] Top.pc = 3 ->
           /\ Goto([Top EXCEPT !.pc = 2, !.i = @ + 1,
                               !.body = Append(@, Top.res)])
           /\ UNCHANGED <<typeVars, runs, panic, ret>>
      [] Top.pc = 2 /\ Top.i > Len(type_decls[ty]) ->
           \E w \in WriteOutcome :
           LET predicate_name == Top.predicate_name
               predicate == Predicate(predicate_name, Top.body,
                                      runs[RunKey("type_predicates", ty)]) IN
           IF log_vir_program_before_viper(w)
           THEN /\ type_predicates' = insert(type_predicates, predicate_name, predicate)
                /\ Return(type_predicates'[predicate_name])
                /\ UNCHANGED <<type_predicate_names, predicate_types, fields, runs, panic>>
           ELSE /\ Unwind("write")
                /\ UNCHANGED <<typeVars, runs>>

\* encode_ref_field
encode_ref_field(field_name, ty) ==
    IF Top.pc = 0
    THEN /\ Call([Top EXCEPT !.pc = 1], Frame("use", ty, ""))
         /\ UNCHANGED <<typeVars, runs, panic, ret>>
    ELSE LET type_name == Top.res.name IN
         /\ fields' = or_insert_with(fields, field_name,
                                     Field(field_name, TypedRef("")))
         /\ Return(Field(field_name, TypedRef(type_name)))
         /\ UNCHANGED <<type_predicate_names, predicate_types, type_predicates,
                        runs, panic>>

\* encode_value_field
encode_value_field(ty) ==
    LET field == TypeEncoder_encode_value_field(ty) IN
    /\ fields' = or_insert_with(fields, field.name, field)
    /\ ret' = Returned("encode_value_field", ty, field)

\* encode_discriminant_field
encode_discriminant_field ==
    LET name == "discriminant"
        field == Field(name, Int_type) IN
    /\ fields' = or_insert_with(fields, name, field)
    /\ ret' = Returned("encode_discriminant_field", "", field)

typesFrame == <<envVars, procedure_contracts, builtin_methods, builtin_functions,
                procedures, pure_functions, closure_instantiations,
                encoding_queue, pc, initialize_calls, seeded, enqueued,
                demanded, used>>

Executing(fn) == stack # <<>> /\ panic = "none" /\ Top.fn = fn

StepPredicateUse ==
    /\ Executing("use")
    /\ encode_type_predicate_use(Top.ty)
    /\ UNCHANGED typesFrame

StepPredicateDef ==
    /\ Executing("def")
    /\ encode_type_predicate_def(Top.ty)
    /\ UNCHANGED typesFrame

StepRefField ==
    /\ Executing("ref_field")
    /\ encode_ref_field(Top.field_name, Top.ty)
    /\ UNCHANGED typesFrame

\* the field names a caller outside the type encoder asks for
CallerFieldNames == {"f0", "val_ref"}

CallTypeOperation ==
    /\ Idle /\ stack = <<>>
    /\ \E frame \in {Frame(fn, ty, "") : fn \in {"use", "def"}, ty \in Ty}
                    \cup {Frame("ref_field", ty, n) : ty \in Ty, n \in CallerFieldNames} :
          /\ stack' = <<frame>>
          /\ ret' = Running(OpOf(frame), ArgOf(frame))
    /\ UNCHANGED <<typesFrame, typeVars, runs, panic>>

CallEncodeValueField ==
    /\ Idle /\ stack = <<>>
    /\ \E ty \in Ty : encode_value_field(ty)
    /\ UNCHANGED <<typesFrame, type_predicate_names, predicate_types,
                   type_predicates, stack, runs, panic>>

CallEncodeDiscriminantField ==
    /\ Idle /\ stack = <<>>
    /\ encode_discriminant_field
    /\ UNCHANGED <<typesFrame, type_predicate_names, predicate_types,
                   type_predicates, stack, runs, panic>>

----------------------------------------------------------------------------
(* Constants and casts *)

\* A u128 is the set of the positions of its one bits (bit 0 the lowest); a
\* literal is a mathematical integer: a sign and the bits of its magnitude.
IntTy == {"I8", "I16", "I32", "I64", "I128", "Isize"}
UintTy == {"U8", "U16", "U32", "U64", "U128", "Usize"}

\* the width of an integer type
BitWidth(ty) ==
    CASE ty \in {"I8", "U8"} -> 8
      [] ty \in {"I16", "U16"} -> 16
      [] ty \in {"I32", "U32", "TyChar"} -> 32
      [] ty \in {"I64", "U64"} -> 64
      [] ty \in {"I128", "U128"} -> 128
      [] ty \in {"Isize", "Usize"} -> usize_bits

IntLiteral(neg, mag) == [neg |-> neg, mag |-> mag]
BoolLiteral(b) == [bool |-> b]
Fatal(why) == [fatal |-> why]
IsFatal(expr) == "fatal" \in DOMAIN expr

\* x + 1
Increment(bits) ==
    LET k == CHOOSE k \in 0..128 :
                 k \notin bits /\ \A j \in 0..(k - 1) : j \in bits
    IN (bits \ (0..(k - 1))) \cup {k}

\* `value as uN`: the low N bits
as_unsigned(bits, n) == IntLiteral(FALSE, bits \cap (0..(n - 1)))

\* `value as iN`: the low N bits, read in two's complement
as_signed(bits, n) ==
    LET low == bits \cap (0..(n - 1)) IN
    IF (n - 1) \in low
    THEN IntLiteral(TRUE, Increment((0..(n - 1)) \ low))
    ELSE IntLiteral(FALSE, low)

\* Scalar::to_bits(Size::from_bits(size)): the bits of the scalar
to_bits(scalar_value, size) == scalar_value.bits

\* Scalar::to_bool
to_bool(scalar_value) ==
    IF scalar_value.bits = {} THEN BoolLiteral(FALSE)
    ELSE IF scalar_value.bits = {0} THEN BoolLiteral(TRUE)
    ELSE Fatal("unwrap")

\* encode_const_expr: value is a ty::Const, its type and its scalar
encode_const_expr(value) ==
    LET scalar_value == [bits |-> value.bits]
        ty == value.ty IN
    CASE ty = "TyBool" -> to_bool(scalar_value)
      [] ty = "I8" -> as_signed(to_bits(scalar_value, 8), 8)
      [] ty = "I16" -> as_signed(to_bits(scalar_value, 16), 16)
      [] ty = "I32" -> as_signed(to_bits(scalar_value, 32), 32)
      [] ty = "I64" -> as_signed(to_bits(scalar_value, 64), 64)
      [] ty = "I128" -> as_signed(to_bits(scalar_value, 128), 128)
      [] ty = "Isize" -> as_signed(to_bits(scalar_value, usize_bits), 128)
      [] ty = "U8" -> as_unsigned(to_bits(scalar_value, 8), 8)
      [] ty = "U16" -> as_unsigned(to_bits(scalar_value, 16), 16)
      [] ty \in {"TyChar", "U32"} -> as_unsigned(to_bits(scalar_value, 32), 32)
      [] ty = "U64" -> as_unsigned(to_bits(scalar_value, 64), 64)
      [] ty = "U128" -> as_unsigned(to_bits(scalar_value, 128), 128)
      [] ty = "Usize" -> as_unsigned(to_bits(scalar_value, usize_bits), 128)
      [] OTHER -> Fatal("unimplemented")

\* faulty variant: a cast to isize goes through i128, as in encode_const_expr
encode_int_cast_isize_as_i128(value, ty) ==
    CASE ty = "TyBool" -> BoolLiteral(value # {})
      [] ty = "I8" -> as_signed(value, 8)
      [] ty = "I16" -> as_signed(value, 16)
      [] ty = "I32" -> as_signed(value, 32)
      [] ty = "I64" -> as_signed(value, 64)
      [] ty = "I128" -> as_signed(value, 128)
      [] ty = "Isize" -> as_signed(value \cap (0..(usize_bits - 1)), 128)
      [] ty = "U8" -> as_unsigned(value, 8)
      [] ty = "U16" -> as_unsigned(value, 16)
      [] ty = "U32" -> as_unsigned(value, 32)
      [] ty = "U64" -> as_unsigned(value, 64)
      [] ty = "U128" -> as_unsigned(value, 128)
      [] ty = "Usize" -> as_unsigned(value, usize_bits)
      [] OTHER -> Fatal("unimplemented")

\* encode_int_cast
encode_int_cast(value, ty) ==
    CASE ty = "TyBool" -> BoolLiteral(value # {})
      [] ty = "I8" -> as_signed(value, 8)
      [] ty = "I16" -> as_signed(value, 16)
      [] ty = "I32" -> as_signed(value, 32)
      [] ty = "I64" -> as_signed(value, 64)
      [] ty = "I128" -> as_signed(value, 128)
      [] ty = "Isize" -> as_signed(value, usize_bits)
      [] ty = "U8" -> as_unsigned(value, 8)
      [] ty = "U16" -> as_unsigned(value, 16)
      [] ty = "U32" -> as_unsigned(value, 32)
      [] ty = "U64" -> as_unsigned(value, 64)
      [] ty = "U128" -> as_unsigned(value, 128)
      [] ty = "Usize" -> as_unsigned(value, usize_bits)
      [] OTHER -> Fatal("unimplemented")

\* the bit patterns around the edges of an n-bit type
EdgePatterns(n) ==
    {{}, {0}, {n - 1}, {0, n - 1}, 0..(n - 2), 0..(n - 1), (1..(n - 1))}
\* the same with bits above the n-th set
WidePatterns(n) ==
    EdgePatterns(n) \cup {b \cup (n..127) : b \in EdgePatterns(n)}
                    \cup {b \cup {127} : b \in EdgePatterns(n)}

\* the constants of the crate: an integer or char constant holds a value of
\* its type; a bool is 0 or 1, or an ill-formed scalar
ConstValues ==
    {[ty |-> ty, bits |-> b] : ty \in {"TyBool"}, b \in {{}, {0}, {1}}}
    \cup UNION {{[ty |-> ty, bits |-> b] : b \in EdgePatterns(BitWidth(ty))} :
                   ty \in IntTy \cup UintTy \cup {"TyChar"}}
    \cup {[ty |-> "TyFloat", bits |-> {}]}
CastTargets == IntTy \cup UintTy \cup {"TyBool", "TyFloat"}

codecFrame == <<envVars, cacheVars, closure_instantiations, encoding_queue, pc,
                stack, histVars>>

CallEncodeConstExpr ==
    /\ Idle
    /\ \E value \in ConstValues :
          LET expr == encode_const_expr(value) IN
          IF IsFatal(expr)
          THEN /\ panic' = expr.fatal
               /\ ret' = Panicked("encode_const_expr", value)
          ELSE /\ panic' = panic
               /\ ret' = Returned("encode_const_expr", value, expr)
    /\ UNCHANGED codecFrame

CallEncodeIntCast ==
    /\ Idle
    /\ \E ty \in CastTargets :
       \E value \in (IF ty \in IntTy \cup UintTy THEN WidePatterns(BitWidth(ty))
                     ELSE {{}, {0}, {7}}) :
          LET expr == encode_int_cast(value, ty) IN
          IF IsFatal(expr)
          THEN /\ panic' = expr.fatal
               /\ ret' = Panicked("encode_int_cast", [ty |-> ty, bits |-> value])
          ELSE /\ panic' = panic
               /\ ret' = Returned("encode_int_cast", [ty |-> ty, bits |-> value], expr)
    /\ UNCHANGED codecFrame

----------------------------------------------------------------------------
(* Initial states *)

\* how many call sites the bodies of a program hold together
MaxCallSites == 2

\* an attribute without a value: value_str() is None
NoStr == <<>>
Flags(S) == [n \in S |-> NoStr]
FlagAttrs == [ProcedureDefId -> {Flags(S) : S \in SUBSET {"pure", "trusted"}}]

RECURSIVE SeqsUpTo(_, _)
SeqsUpTo(S, n) ==
    IF n = 0 THEN {<<>>}
    ELSE LET shorter == SeqsUpTo(S, n - 1) IN
         shorter \cup {Append(s, x) : s \in {t \in shorter : Len(t) = n - 1},
                                      x \in S}

RECURSIVE SumLen(_, _)
SumLen(f, S) ==
    IF S = {} THEN 0
    ELSE LET x == CHOOSE y \in S : TRUE IN Len(f[x]) + SumLen(f, S \ {x})

CallGraphs ==
    {g \in [ProcedureDefId -> SeqsUpTo(ProcedureDefId, MaxCallSites)] :
        SumLen(g, ProcedureDefId) <= MaxCallSites}

\* Procedure ids are opaque, so a program is one of a class of renamings; the
\* queue specification draws one program of each class, the one whose
\* attribute sets are in ascending order along f, g, h.
FlagRank(a) ==
    (IF "pure" \in DOMAIN a THEN 1 ELSE 0) + (IF "trusted" \in DOMAIN a THEN 2 ELSE 0)
OrderedFlagAttrs ==
    {a \in FlagAttrs : /\ FlagRank(a["f"]) <= FlagRank(a["g"])
                       /\ FlagRank(a["g"]) <= FlagRank(a["h"])}

NoFields == [t \in Ty |-> <<>>]
DistinctNames == [A |-> "P", B |-> "Q"]

NoBodies == [d \in ProcedureDefId |-> <<>>]

RunKeys ==
    ({"procedures", "pure_functions", "pure_function_bodies",
      "procedure_contracts"} \X ProcedureDefId)
    \cup ({"builtin_methods"} \X BuiltinMethodKind)
    \cup ({"builtin_functions"} \X BuiltinFunctionKind)
    \cup ({"type_predicates", "type_predicate_names"} \X Ty)

InitEngine ==
    /\ procedure_contracts = EmptyMap
    /\ builtin_methods = EmptyMap
    /\ builtin_functions = EmptyMap
    /\ procedures = EmptyMap
    /\ pure_functions = EmptyMap
    /\ closure_instantiations = EmptyMap
    /\ encoding_queue = <<>>
    /\ pc = "idle"
    /\ panic = "none"
    /\ ret = Returned("new", "", NoValue)
    /\ runs = [k \in RunKeys |-> 0]
    /\ initialize_calls = 0
    /\ seeded = {}
    /\ enqueued = {}
    /\ demanded = {}
    /\ used = {}
    /\ type_predicate_names = EmptyMap
    /\ predicate_types = EmptyMap
    /\ type_predicates = EmptyMap
    /\ fields = EmptyMap
    /\ stack = <<>>

\* the queue specification: any small program, seeded and drained
InitQueue ==
    /\ attrs \in OrderedFlagAttrs
    /\ calls \in CallGraphs
    /\ mir = NoBodies
    /\ spec = EmptyMap
    /\ type_decls = NoFields
    /\ type_names = DistinctNames
    /\ usize_bits = 64
    /\ InitEngine

NextQueue ==
    \/ SeedQueue
    \/ ProcessStart
    \/ DrainStep
    \/ ProcessReturn

SpecQueue == InitQueue /\ [][NextQueue]_vars /\ WF_vars(DrainStep) /\ WF_vars(ProcessReturn)

\* the driver specification: one program, every public operation
DriverCalls == [f |-> <<"g", "f">>, g |-> <<"h">>, h |-> <<>>]

\* f is an ordinary procedure; g and h carry any attributes
DriverAttrs == {a \in FlagAttrs : a["f"] = Flags({})}

\* f is an ordinary procedure, g a pure function, h a trusted procedure
UseAttrs == {a \in DriverAttrs : /\ a["g"] = Flags({"pure"})
                                 /\ a["h"] = Flags({"trusted"})}

InitDriver ==
    /\ attrs \in DriverAttrs
    /\ calls = DriverCalls
    /\ mir = NoBodies
    /\ spec = EmptyMap
    /\ type_decls = NoFields
    /\ type_names = DistinctNames
    /\ usize_bits = 64
    /\ InitEngine

NextDriver ==
    \/ SeedQueue
    \/ CallEncodeProcedureUse
    \/ CallEncodePureFunctionUse
    \/ CallEncodePureFunctionReturnType
    \/ CallEncodeProcedure
    \/ CallEncodePureFunctionDef
    \/ ProcessStart
    \/ DrainStep
    \/ ProcessReturn

SpecDriver == InitDriver /\ [][NextDriver]_vars /\ WF_vars(DrainStep) /\ WF_vars(ProcessReturn)

\* the body specification: requests for pure-function bodies between passes
NextBody ==
    \/ CallEncodePureFunctionBody
    \/ ProcessStart
    \/ DrainStep
    \/ ProcessReturn

SpecBody == InitDriver /\ [][NextBody]_vars /\ WF_vars(DrainStep) /\ WF_vars(ProcessReturn)

\* the order specification: any small program, seeded and drained in any
\* order of processing
NextOrder ==
    \/ SeedQueue
    \/ ProcessStart
    \/ DrainStepAnyOrder
    \/ ProcessReturn

SpecOrder == InitQueue /\ [][NextOrder]_vars

\* the use specification: encode_procedure_use between definition calls that
\* fill the caches of methods, functions, builtins, contracts and fields, in
\* a program whose bodies hold no call sites
InitUse ==
    /\ attrs \in UseAttrs
    /\ calls = [d \in ProcedureDefId |-> <<>>]
    /\ mir = NoBodies
    /\ spec = EmptyMap
    /\ type_decls = NoFields
    /\ type_names = DistinctNames
    /\ usize_bits = 64
    /\ InitEngine

NextUse ==
    \/ CallEncodeProcedureUse
    \/ CallEncodeProcedure
    \/ CallEncodePureFunctionDef
    \/ CallBuiltinMethodDef
    \/ CallBuiltinFunctionDef
    \/ CallContractForDef
    \/ CallEncodeDiscriminantField

SpecUse == InitUse /\ [][NextUse]_vars

\* the builtin specification: definitions and uses of builtins in any order
InitBuiltin ==
    /\ attrs = [d \in ProcedureDefId |-> Flags({})]
    /\ calls = [d \in ProcedureDefId |-> <<>>]
    /\ mir = NoBodies
    /\ spec = EmptyMap
    /\ type_decls = NoFields
    /\ type_names = DistinctNames
    /\ usize_bits = 64
    /\ InitEngine

NextBuiltin ==
    \/ CallBuiltinMethodDef
    \/ CallBuiltinMethodUse
    \/ CallBuiltinFunctionDef
    \/ CallBuiltinFunctionUse

SpecBuiltin == InitBuiltin /\ [][NextBuiltin]_vars

\* the contract specification: every way a procedure can carry, or lack, a
\* specification identifier, and two specification tables
SpecAttr(value_str) == (PRUSTI_SPEC_ATTR :> value_str)
SpecAttrs ==
    {Flags({}), SpecAttr(NoStr), SpecAttr(Some(<<>>)), SpecAttr(Some(<<"x">>)),
     SpecAttr(Some(<<"1">>)), SpecAttr(Some(<<"0", "1">>)),
     SpecAttr(Some(<<"+", "2">>)), SpecAttr(Some(<<"7">>))}
SpecTables ==
    {(1 :> Procedure(<<"_1">>, <<"_0">>)),
     (1 :> Procedure(<<"_1">>, <<"_0", "_1">>)) @@ (2 :> Procedure(<<>>, <<"_1">>))}

InitContract ==
    /\ attrs \in [ProcedureDefId -> SpecAttrs]
    /\ calls = [d \in ProcedureDefId |-> <<>>]
    /\ mir = NoBodies
    /\ spec \in SpecTables
    /\ type_decls = NoFields
    /\ type_names = DistinctNames
    /\ usize_bits = 64
    /\ InitEngine

NextContract ==
    \/ CallContractForDef
    \/ CallContractForCall

SpecContract == InitContract /\ [][NextContract]_vars

\* the type specification: every declaration of the types with at most
\* MaxFields fields each (self-referential and mutually recursive ones
\* included), under a type encoder whose names are distinct or collide
MaxFields == 1
TypeDecls == [Ty -> SeqsUpTo(Ty, MaxFields)]
TypeNames == {DistinctNames, [A |-> "P", B |-> "P"]}

InitTypes ==
    /\ attrs = [d \in ProcedureDefId |-> Flags({})]
    /\ calls = [d \in ProcedureDefId |-> <<>>]
    /\ mir = NoBodies
    /\ spec = EmptyMap
    /\ type_decls \in TypeDecls
    /\ type_names \in TypeNames
    /\ usize_bits = 64
    /\ InitEngine

NextTypes ==
    \/ CallTypeOperation
    \/ CallEncodeValueField
    \/ CallEncodeDiscriminantField
    \/ StepPredicateUse
    \/ StepPredicateDef
    \/ StepRefField

SpecTypes ==
    /\ InitTypes /\ [][NextTypes]_vars
    /\ WF_vars(StepPredicateUse) /\ WF_vars(StepPredicateDef) /\ WF_vars(StepRefField)

\* the closure specification: one body of up to two blocks of up to MaxStmts
\* statements, with or without each marker, beside two fixed bodies
MaxStmts == 2
Stmts == {OtherStmt, ClosureStmt("c", <<"_1">>), ClosureStmt("d", <<>>)}
Blocks == SeqsUpTo(Stmts, MaxStmts)
Bodies == {<<>>} \cup {<<b>> : b \in Blocks} \cup {<<a, b>> : a, b \in Blocks}
SmallBodies ==
    {<<>>, <<<<ClosureStmt("c", <<"_2">>)>>>>,
     <<<<OtherStmt>>, <<OtherStmt, ClosureStmt("d", <<"_1", "_2">>)>>>>}
Markers == {"__PRUSTI_LOOP_SPEC_ID", "__PRUSTI_EXPR_ID", "__PRUSTI_FORALL_ID",
            "__PRUSTI_SPEC_ONLY", PRUSTI_SPEC_ATTR}

InitClosure ==
    /\ attrs \in {[f |-> a, g |-> b, h |-> Flags({})] :
                     a \in {Flags({}), Flags({"pure"})} \cup {Flags({m}) : m \in Markers},
                     b \in {Flags({}), Flags({"__PRUSTI_SPEC_ONLY"})}}
    /\ calls = [d \in ProcedureDefId |-> <<>>]
    /\ mir \in {[f |-> a, g |-> b, h |-> <<>>] : a \in Bodies, b \in SmallBodies}
    /\ spec = EmptyMap
    /\ type_decls = NoFields
    /\ type_names = DistinctNames
    /\ usize_bits = 64
    /\ InitEngine

NextClosure ==
    \/ ProcessStart
    \/ ProcessReturn
    \/ CallGetClosureInstantiations

SpecClosure == InitClosure /\ [][NextClosure]_vars

\* the codec specification: constants and casts on a 32-bit and a 64-bit host
HostWidths == {32, 64}

InitCodec ==
    /\ attrs = [d \in ProcedureDefId |-> Flags({})]
    /\ calls = [d \in ProcedureDefId |-> <<>>]
    /\ mir = NoBodies
    /\ spec = EmptyMap
    /\ type_decls = NoFields
    /\ type_names = DistinctNames
    /\ usize_bits \in HostWidths
    /\ InitEngine

NextCodec ==
    \/ CallEncodeConstExpr
    \/ CallEncodeIntCast

SpecCodec == InitCodec /\ [][NextCodec]_vars

----------------------------------------------------------------------------
(* Reachability in the call graph *)

is_pure(id) == has_attribute_name(id, "pure")
is_trusted(id) == has_attribute_name(id, "trusted")

\* every id reachable from S along call sites
RECURSIVE CallReach(_)
CallReach(S) ==
    LET T == S \cup UNION {Range(calls[x]) : x \in S} IN
    IF T = S THEN S ELSE CallReach(T)

\* every id reachable from S along the call sites of bodies that are
\* translated, i.e. the bodies of ids not marked trusted
RECURSIVE TranslatedReach(_)
TranslatedReach(S) ==
    LET T == S \cup UNION {Range(calls[x]) : x \in {y \in S : ~is_trusted(y)}} IN
    IF T = S THEN S ELSE TranslatedReach(T)

ProcessReturned == ret = Returned("process_encoding_queue", "", NoValue)

----------------------------------------------------------------------------
(* Properties *)

\* C1: for every call graph (cyclic ones included) and every set of seeded
\* ids, the drain loop of process_encoding_queue comes to an end, and when
\* the call returns the encoding queue is empty.
C1_QueueDrains ==
    /\ (pc = "draining") ~> (pc = "idle" \/ panic # "none")
    /\ [](ProcessReturned => encoding_queue = <<>>)

\* reached: a pass over a self-recursive procedure, seeded with two ids, has
\* returned
C1_Witness ==
    /\ ProcessReturned
    /\ Cardinality(seeded) >= 2
    /\ \E p \in DOMAIN procedures : p \in Range(calls[p])

\* C2 (as claimed): after a pass seeded with one id, the methods are the
\* non-pure, non-trusted ids reachable from the seed in the call graph and
\* the functions are the reachable pure ids.
C2_ClosureOfCallGraph ==
    (ProcessReturned /\ Cardinality(seeded) = 1) =>
        /\ DOMAIN procedures =
              {x \in CallReach(seeded) : ~is_pure(x) /\ ~is_trusted(x)}
        /\ DOMAIN pure_functions = {x \in CallReach(seeded) : is_pure(x)}

\* C2 (amended): after a pass seeded with one id, the methods are the
\* non-pure, non-trusted ids reachable from the seed along the call sites of
\* translated bodies (bodies of ids not marked trusted), and the functions
\* are the pure ids reachable that way.
C2_ClosureOfTranslatedBodies ==
    (ProcessReturned /\ Cardinality(seeded) = 1) =>
        /\ DOMAIN procedures =
              {x \in TranslatedReach(seeded) : ~is_pure(x) /\ ~is_trusted(x)}
        /\ DOMAIN pure_functions = {x \in TranslatedReach(seeded) : is_pure(x)}

\* reached: a pass seeded with one id has returned with two methods and a
\* function, and a trusted id was reached whose callee was not
C2_Witness ==
    /\ ProcessReturned /\ Cardinality(seeded) = 1
    /\ Cardinality(DOMAIN procedures) + Cardinality(DOMAIN pure_functions) >= 2
    /\ \E t \in TranslatedReach(seeded) :
          is_trusted(t) /\ ~(Range(calls[t]) \subseteq TranslatedReach(seeded))

TranslationKeys == {"procedures", "pure_functions"} \X ProcedureDefId

DefinitionOps == {"encode_procedure", "encode_pure_function_def"}
DefinitionCache(op) ==
    IF op = "encode_procedure" THEN procedures ELSE pure_functions
Cached == DOMAIN procedures \cup DOMAIN pure_functions

\* C3: the body translation of an id runs at most once however often the id
\* is queued or its definition demanded, an id in a cache has been translated
\* exactly once, a definition call returns the cached artifact, and a loop
\* iteration that pops a cached id changes no cache.
C3_TranslatedOnce ==
    /\ [](\A k \in TranslationKeys : runs[k] <= 1)
    /\ [](\A id \in DOMAIN procedures : runs[RunKey("procedures", id)] = 1)
    /\ [](\A id \in DOMAIN pure_functions : runs[RunKey("pure_functions", id)] = 1)
    /\ []((ret.op \in DefinitionOps /\ ret.st = "returned") =>
             /\ contains_key(DefinitionCache(ret.op), ret.arg)
             /\ ret.val = DefinitionCache(ret.op)[ret.arg])
    /\ [][(pc = "draining" /\ encoding_queue # <<>>
             /\ pop_value(encoding_queue) \in Cached)
          => UNCHANGED <<cacheVars, runs>>]_vars

\* reached: the loop has popped an id whose definition the driver had
\* demanded before, and the call returned the artifact of the one run
C3_Witness ==
    /\ pc = "draining" /\ ret.op = "encode_procedure" /\ ret.st = "returned"
    /\ ret.arg \in demanded
    /\ ret.arg \in Range(calls[ret.arg])
    /\ ret.val = CfgMethod(ret.arg, 1)

WrongKindCall ==
    \/ ret.op \in {"encode_procedure_use", "encode_procedure"} /\ is_pure(ret.arg)
    \/ ret.op = "encode_procedure" /\ is_trusted(ret.arg)
    \/ /\ ret.op \in {"encode_pure_function_def", "encode_pure_function_use"}
       /\ ~is_pure(ret.arg)

\* C8: a procedure operation on a pure id, encode_procedure on a trusted id
\* and a pure-function operation on a non-pure id panic, and the step that
\* panics on the assertion leaves the queue and every cache as they were.
C8_AssertionAborts ==
    /\ [](WrongKindCall => (ret.st = "panicked" /\ panic = "assert"))
    /\ [][(panic = "none" /\ panic' = "assert") =>
            UNCHANGED <<encoding_queue, cacheVars, closure_instantiations>>]_vars

\* reached: encode_procedure has panicked on a trusted id while the queue
\* and the procedures cache held entries
C8_Witness ==
    /\ panic = "assert" /\ ret.op = "encode_procedure" /\ is_trusted(ret.arg)
    /\ ~is_pure(ret.arg)
    /\ encoding_queue # <<>> /\ DOMAIN procedures # {}

\* C9: the closure instantiation index is built exactly once and before any
\* body is translated.
C9_IndexBuiltOnce ==
    /\ initialize_calls <= 1
    /\ \A k \in TranslationKeys : runs[k] > 0 => initialize_calls >= 1

C4_BuiltinUseImpliesDefinition ==
    \A u \in used :
        IF u[1] = "method"
        THEN /\ contains_key(builtin_methods, u[2])
             /\ builtin_methods[u[2]].builtin_method = u[2]
             /\ builtin_methods[u[2]] \in get_used_viper_methods
        ELSE /\ contains_key(builtin_functions, u[2])
             /\ builtin_functions[u[2]].builtin_function = u[2]
             /\ builtin_functions[u[2]] \in get_used_viper_functions

\* reached: a method use and a function use have returned and their kinds
\* stay defined while a later definition call of another function kind returns
C4_Witness ==
    /\ \E u \in used : u[1] = "method"
    /\ \E u \in used : u[1] = "function"
    /\ ret.op = "encode_builtin_function_def" /\ ret.st = "returned"
    /\ <<"function", ret.arg>> \notin used

\* the string is a decimal numeral (with an optional plus sign) of k
RECURSIVE Pow10(_)
Pow10(n) == IF n = 0 THEN 1 ELSE 10 * Pow10(n - 1)
RECURSIVE WeightedSum(_, _)
WeightedSum(s, i) ==
    IF i > Len(s) THEN 0
    ELSE DigitValue(s[i]) * Pow10(Len(s) - i) + WeightedSum(s, i + 1)
Denotes(s, k) ==
    \E body \in {s} \cup (IF s # <<>> /\ s[1] = "+" THEN {Tail(s)} ELSE {}) :
        /\ body # <<>> /\ \A i \in 1..Len(body) : body[i] \in Range(Digits)
        /\ (s # <<>> /\ s[1] = "+") => body = Tail(s)
        /\ WeightedSum(body, 1) = k

\* the procedure has no specification attribute, the attribute has no value
\* or one that is no numeral, or the numeral is not a key of the table
NoRegisteredSpecification(id) ==
    \/ ~has_attribute_name(id, PRUSTI_SPEC_ATTR)
    \/ attrs[id][PRUSTI_SPEC_ATTR] = NoStr
    \/ \A k \in DOMAIN spec : ~Denotes(attrs[id][PRUSTI_SPEC_ATTR][1], k)

ContractOps == {"get_procedure_contract_for_def", "get_procedure_contract_for_call"}

\* C5: the contract computed for a procedure without registered
\* specification has an empty precondition and an empty postcondition, and
\* the request returns without a panic.
C5_MissingContractFallback ==
    /\ \A id \in DOMAIN procedure_contracts :
          NoRegisteredSpecification(id) =>
              /\ procedure_contracts[id].pre = <<>>
              /\ procedure_contracts[id].post = <<>>
    /\ (ret.op \in ContractOps /\ NoRegisteredSpecification(ret.arg)) =>
          /\ ret.st = "returned" /\ panic = "none"
          /\ ret.val.pre = <<>> /\ ret.val.post = <<>>

\* reached: contracts are cached for a procedure without attribute, for one
\* with an unparsable identifier and for one whose identifier is not in the
\* table, beside one with a registered specification
C5_Witness ==
    /\ DOMAIN procedure_contracts = ProcedureDefId
    /\ ~has_attribute_name("f", PRUSTI_SPEC_ATTR)
    /\ attrs["g"] = SpecAttr(Some(<<"x">>))
    /\ attrs["h"] = SpecAttr(Some(<<"7">>))
    /\ ret.op = "get_procedure_contract_for_call" /\ ret.arg = "h"

\* the activations that are computing the predicate body of ty
ComputingBody(ty) ==
    {k \in 1..Len(stack) : /\ stack[k].fn = "def" /\ stack[k].ty = ty
                           /\ stack[k].pc \in {2, 3}}

RECURSIVE FieldReach(_)
FieldReach(S) ==
    LET next == S \cup UNION {Range(type_decls[t]) : t \in S} IN
    IF next = S THEN S ELSE FieldReach(next)
\* ty has a field of its own type, directly or through other types
SelfReferential(ty) == ty \in FieldReach(Range(type_decls[ty]))

NoReexpansion ==
    \A ty \in Ty :
        /\ Cardinality(ComputingBody(ty)) <= 1
        /\ runs[RunKey("type_predicates", ty)] <= 1
        /\ \A k \in 1..Len(stack) :
              (stack[k].ty = ty /\ \E j \in ComputingBody(ty) : j < k) =>
                  contains_key(type_predicate_names, ty)
        /\ \A k \in ComputingBody(ty) : \A j \in 1..Len(stack[k].body) :
              stack[k].body[j].type =
                  TypedRef(type_predicate_names[type_decls[ty][j]])

\* C6: every request of a type predicate returns or panics (it never
\* recurses forever), self-referential types included; while the body of a
\* type is computed, a nested request of that type finds its name in the
\* name cache, no second body computation of the type starts, and the body
\* refers to its field types by their cached names.
C6_RecursivePredicateTerminates ==
    /\ (stack # <<>>) ~> (stack = <<>> \/ panic # "none")
    /\ []NoReexpansion

\* reached: the predicate definition of A, which refers back to itself
\* through B, has returned, and B's body names A's predicate
C6_Witness ==
    /\ type_decls = [A |-> <<"B">>, B |-> <<"A">>]
    /\ type_names = DistinctNames
    /\ SelfReferential("A")
    /\ ret = Returned("encode_type_predicate_def", "A",
                      Predicate("P", <<Field("f0", TypedRef("Q"))>>, 1))
    /\ contains_key(type_predicates, "Q")
    /\ type_predicates["Q"].body = <<Field("f0", TypedRef("P"))>>
    /\ stack = <<>>

WriteOnce(m, n) == \A k \in DOMAIN m : k \in DOMAIN n /\ n[k] = m[k]

\* C7: a key of an output mapping keeps the value it was first inserted
\* with: no step removes a key or changes the value stored under it.
C7_WriteOncePerKey ==
    [][/\ WriteOnce(fields, fields')
       /\ WriteOnce(type_predicates, type_predicates')
       /\ WriteOnce(procedures, procedures')
       /\ WriteOnce(pure_functions, pure_functions')
       /\ WriteOnce(builtin_methods, builtin_methods')
       /\ WriteOnce(builtin_functions, builtin_functions')]_vars

\* the fields of a ProcedureContractMirDef (a view has none named def_id)
ContractFields == {"def_id", "args", "returned", "pre", "post"}
ViewRequested(id) == \E u \in used : u[1] \in {"def_view", "call_view"} /\ u[2] = id

\* C11: whatever the order of def-view and call-view requests, the contract
\* of an id has been computed exactly once if a view of it was ever
\* requested and never otherwise; the cache holds contracts, not views; and
\* every view returned is the view of the cached contract.
C11_ContractComputedOnce ==
    /\ \A id \in ProcedureDefId :
          /\ contains_key(procedure_contracts, id) <=> ViewRequested(id)
          /\ runs[RunKey("procedure_contracts", id)] =
                 IF ViewRequested(id) THEN 1 ELSE 0
          /\ contains_key(procedure_contracts, id) =>
                 /\ DOMAIN procedure_contracts[id] = ContractFields
                 /\ procedure_contracts[id].def_id = id
    /\ ret.op = "get_procedure_contract_for_def" =>
          ret.val = to_def_site_contract(procedure_contracts[ret.arg])
    /\ ret.op = "get_procedure_contract_for_call" =>
          ret.val = to_call_site_contract(procedure_contracts[ret.arg],
                                          ret.val.args, ret.val.target)

\* reached: both views of f, which has a registered specification, were
\* requested, and the call view returned last has the actuals substituted
C11_Witness ==
    /\ {<<"def_view", "f">>, <<"call_view", "f">>} \subseteq used
    /\ attrs["f"] = SpecAttr(Some(<<"1">>))
    /\ ret.op = "get_procedure_contract_for_call" /\ ret.arg = "f"
    /\ ret.val.pre = <<"x">> /\ ret.val.post = <<"t">>
    /\ runs[RunKey("procedure_contracts", "f")] = 1

\* C12: the procedures cache holds no id marked trusted and no id marked
\* pure, and the pure_functions cache holds only ids marked pure.
C12_TrustedAndPureKeptApart ==
    /\ \A id \in DOMAIN procedures : ~is_pure(id) /\ ~is_trusted(id)
    /\ \A id \in DOMAIN pure_functions : is_pure(id)

\* reached: a pass that had a trusted, non-pure id in its queue has returned
\* with methods for other ids and none for the trusted one
C12_Witness ==
    /\ ProcessReturned
    /\ \E id \in enqueued :
          is_trusted(id) /\ ~is_pure(id) /\ ~contains_key(procedures, id)
    /\ contains_key(procedures, "f")

\* C13: two distinct types of the name cache never have the same name; the
\* name of a type is computed on the first request only, and every request
\* of the type returns that name.
C13_NameUniqueness ==
    /\ \A t1, t2 \in DOMAIN type_predicate_names :
          t1 # t2 => type_predicate_names[t1] # type_predicate_names[t2]
    /\ \A t \in Ty :
          runs[RunKey("type_predicate_names", t)] =
              IF contains_key(type_predicate_names, t) THEN 1 ELSE 0
    /\ (ret.op = "encode_type_predicate_use" /\ ret.st = "returned") =>
          ret.val = [name |-> type_predicate_names[ret.arg]]

\* the predicate of ty: one reference field per declared field
BodyOf(ty) ==
    [j \in 1..Len(type_decls[ty]) |->
        Field(FieldNames[j], TypedRef(type_names[type_decls[ty][j]]))]

\* C14: when two distinct types of the name cache have the same predicate
\* name the engine has panicked, and a predicate definition returned for a
\* type is never the body of another type.
C14_CollisionIsFatal ==
    /\ \A t1, t2 \in DOMAIN type_predicate_names :
          (t1 # t2 /\ type_predicate_names[t1] = type_predicate_names[t2])
              => panic # "none"
    /\ (ret.op = "encode_type_predicate_def" /\ ret.st = "returned") =>
          ret.val.body = BodyOf(ret.arg)

\* x + y on bit sets, by carry propagation
RECURSIVE Add(_, _)
Add(x, y) ==
    IF y = {} THEN x
    ELSE Add((x \cup y) \ (x \cap y), {i + 1 : i \in x \cap y})

\* the literal is the value of the low n bits: read in two's complement for
\* a signed type (a negative literal -m has m + low = 2^n), unsigned otherwise
IsValueOf(literal, bits, n, signed) ==
    LET low == bits \cap (0..(n - 1)) IN
    IF signed /\ (n - 1) \in low
    THEN literal.neg /\ Add(literal.mag, low) = {n}
    ELSE ~literal.neg /\ literal.mag = low

\* C15: the literal of an integer constant of a type of width w is the
\* value of its low w bits, in two's complement for a signed type (isize
\* included) and unsigned for an unsigned one.
C15_ConstExprValue ==
    (ret.op = "encode_const_expr" /\ ret.arg.ty \in IntTy \cup UintTy) =>
        /\ ret.st = "returned"
        /\ IsValueOf(ret.val, ret.arg.bits, BitWidth(ret.arg.ty),
                     ret.arg.ty \in IntTy)

\* C16: the literal of a cast to an integer type of width w is the value of
\* the low w bits of the pattern, in two's complement for a signed target
\* and unsigned for an unsigned one, isize and usize having the host width.
C16_IntCastValue ==
    (ret.op = "encode_int_cast" /\ ret.arg.ty \in IntTy \cup UintTy) =>
        /\ ret.st = "returned"
        /\ IsValueOf(ret.val, ret.arg.bits, BitWidth(ret.arg.ty),
                     ret.arg.ty \in IntTy)

\* reached: the pattern of 128 ones was cast to isize and gave -1
C16_Witness ==
    /\ ret = Returned("encode_int_cast", [ty |-> "Isize", bits |-> 0..127],
                      IntLiteral(TRUE, {0}))
    /\ usize_bits = 64

\* C17: no operation panics because a dump could not be written: a
\* definition call on an id of the right kind returns and leaves its
\* artifact in the cache, whatever the writer answers.
C17_LogFailureNotPropagated ==
    /\ panic # "write"
    /\ (ret.op \in DefinitionOps /\ ~WrongKindCall) =>
          /\ ret.st = "returned"
          /\ contains_key(DefinitionCache(ret.op), ret.arg)

\* the closure constructions of c in marked bodies, each with its place
Constructions(c) ==
    {<<p, b, i, mir[p][b + 1][i + 1].operands>> :
        <<p, b, i>> \in
            {x \in ProcedureDefId \X (0..1) \X (0..MaxStmts) :
                /\ \E m \in Markers : m \in DOMAIN attrs[x[1]]
                /\ x[2] < Len(mir[x[1]])
                /\ x[3] < Len(mir[x[1]][x[2] + 1])
                /\ mir[x[1]][x[2] + 1][x[3] + 1].kind = "Closure"
                /\ mir[x[1]][x[2] + 1][x[3] + 1].def_id = c}}

\* C18: once the index is built, the instantiations of a closure id are its
\* construction statements in marked bodies, one entry each with the
\* enclosing body, the block, the statement index and the operands, none
\* from an unmarked body, and the empty list for a closure never constructed.
C18_ClosureIndexContent ==
    initialize_calls >= 1 =>
        /\ \A c \in ClosureDefId :
              LET instantiations == get_closure_instantiations(c) IN
              /\ Range(instantiations) = Constructions(c)
              /\ Len(instantiations) = Cardinality(Constructions(c))
        /\ ret.op = "get_closure_instantiations" =>
              /\ ret.st = "returned" /\ panic = "none"
              /\ ret.val.instantiations = get_closure_instantiations(ret.arg)

\* reached: f is marked and constructs c twice, g is unmarked and constructs
\* c too, d is constructed nowhere; the query for d returned the empty list
\* and c has the two entries of f only
C18_Witness ==
    /\ initialize_calls >= 1
    /\ attrs["f"] = Flags({"__PRUSTI_FORALL_ID"}) /\ attrs["g"] = Flags({})
    /\ mir["f"] = <<<<OtherStmt, ClosureStmt("c", <<"_1">>)>>,
                    <<ClosureStmt("c", <<"_1">>)>>>>
    /\ mir["g"] = <<<<ClosureStmt("c", <<"_2">>)>>>>
    /\ ret = Returned("get_closure_instantiations", "d", [instantiations |-> <<>>])
    /\ get_closure_instantiations("c") =
           <<<<"f", 0, 1, <<"_1">>>>, <<"f", 1, 0, <<"_1">>>>>>

\* C19: the body of a pure function is computed at most once however often
\* it is requested.
C19_PureBodyComputedOnce ==
    \A id \in ProcedureDefId : runs[RunKey("pure_function_bodies", id)] <= 1

\* how many body computations have started under the predicate name n
BodyRunsUnder(n) ==
    LET of(t) == IF type_names[t] = n THEN runs[RunKey("type_predicates", t)]
                 ELSE 0
    IN of("A") + of("B")

\* the running activation is a name request for a type whose body is being
\* computed further down the stack
NestedUse == Executing("use") /\ ComputingBody(Top.ty) # {}

\* C20: while the body of a type is computed the type has its name in the
\* name cache; a name request for such a type, made during the computation,
\* returns the cached name and starts no body computation; and no predicate
\* name has its body computed more than once.
C20_NameBeforeBody ==
    /\ [](\A t \in Ty : ComputingBody(t) # {} =>
              contains_key(type_predicate_names, t))
    /\ [][NestedUse =>
              /\ runs' = runs
              /\ Len(stack') = Len(stack) - 1
              /\ stack'[Len(stack')].res = [name |-> type_predicate_names[Top.ty]]]_vars
    /\ [](\A n \in Range(<<type_names["A"], type_names["B"]>>) :
              BodyRunsUnder(n) <= 1)

\* what a returning encode_pure_function_def does on a miss, and what a loop
\* iteration does with an id marked pure and trusted
PureDefStores ==
    LET id == ret'.arg IN
    (/\ ret'.op = "encode_pure_function_def"
     /\ ret'.st = "returned"
     /\ ~contains_key(pure_functions, id))
    => /\ is_pure(id)
       /\ pure_functions' =
             insert(pure_functions, id,
                    Function(id, ~is_trusted(id), runs'[RunKey("pure_functions", id)]))
       /\ ret'.val = pure_functions'[id]

DrainTakesPureTrusted ==
    LET id == pop_value(encoding_queue) IN
    (/\ pc = "draining" /\ encoding_queue # <<>>
     /\ is_pure(id) /\ is_trusted(id))
    => /\ ret'.op = "encode_pure_function_def" /\ ret'.arg = id
       /\ ret'.st = "returned" =>
             /\ contains_key(pure_functions', id)
             /\ ~pure_functions'[id].body

\* C21: a call of encode_pure_function_def that returns for a pure id that
\* was absent from the cache has stored, and returns, a bodyless function
\* when the id is also marked trusted and a function with its body
\* otherwise; an iteration of the drain loop that takes an id marked both
\* pure and trusted does not skip it but goes through
\* encode_pure_function_def, which leaves the bodyless function in
\* pure_functions.
C21_BodylessWhenTrusted ==
    /\ [][PureDefStores]_vars
    /\ [][DrainTakesPureTrusted]_vars
    /\ [](\A id \in DOMAIN pure_functions :
            pure_functions[id].body = ~is_trusted(id))

\* reached: the drain loop has just stored the bodyless function of an id
\* marked pure and trusted, next to a pure function stored with its body
C21_Witness ==
    /\ pc = "draining"
    /\ ret.op = "encode_pure_function_def" /\ ret.st = "returned"
    /\ is_pure(ret.arg) /\ is_trusted(ret.arg)
    /\ contains_key(pure_functions, ret.arg)
    /\ ~pure_functions[ret.arg].body
    /\ \E k \in DOMAIN pure_functions : pure_functions[k].body

\* C22: the keys of the procedures and pure_functions caches after the queue
\* is drained do not depend on the order in which queued ids are taken: for
\* every order of seeding and every order of processing (the last-in
\* first-out order of Vec::pop among them) a pass that returns leaves
\* the same key sets, the ones determined by the seeded ids, the call
\* sites and the attributes alone.
C22_OrderIndependent ==
    ProcessReturned =>
        /\ DOMAIN procedures =
              {x \in TranslatedReach(seeded) : ~is_pure(x) /\ ~is_trusted(x)}
        /\ DOMAIN pure_functions = {x \in TranslatedReach(seeded) : is_pure(x)}

\* reached: a pass that took an id from another position than the last, and
\* an id from the last position, has returned with a method and a function
C22_Witness ==
    /\ ProcessReturned
    /\ <<"taken", "other">> \in used /\ <<"taken", "last">> \in used
    /\ procedures # EmptyMap /\ pure_functions # EmptyMap

\* the effect of one call of encode_procedure_use on an id not marked pure
ProcedureUseEffect ==
    LET id == ret'.arg IN
    (ret'.op = "encode_procedure_use" /\ ~is_pure(id))
    => /\ ret'.st = "returned"
       /\ encoding_queue' = Append(encoding_queue, id)
       /\ UNCHANGED <<procedures, pure_functions, fields, builtin_methods,
                      builtin_functions, procedure_contracts>>

\* C23: a call of encode_procedure_use on an id not marked pure returns and
\* appends exactly one occurrence of the id at the back of the encoding
\* queue, also when the id is already queued or already in the procedures
\* cache, and leaves the procedures, pure_functions, fields, builtin and
\* contract caches as they were.
C23_UseOnlyQueues == [][ProcedureUseEffect]_vars

\* reached: encode_procedure_use has returned for an id that is translated
\* and was queued before, while every cache holds an entry
C23_Witness ==
    /\ ret.op = "encode_procedure_use" /\ ret.st = "returned"
    /\ contains_key(procedures, ret.arg)
    /\ Len(encoding_queue) >= 2
    /\ encoding_queue[Len(encoding_queue) - 1] = ret.arg
    /\ encoding_queue[Len(encoding_queue)] = ret.arg
    /\ pure_functions # EmptyMap /\ fields # EmptyMap
    /\ builtin_methods # EmptyMap /\ builtin_functions # EmptyMap
    /\ procedure_contracts # EmptyMap

\* the operations that return a field
FieldOps == {"encode_value_field", "encode_ref_field", "encode_discriminant_field"}

\* C24: every call of encode_value_field, encode_ref_field or
\* encode_discriminant_field that returns a field returns the field stored
\* under that field's name in the fields cache (the one that
\* get_used_viper_fields emits), whichever operation and whichever type
\* registered the name first.
C24_ReturnedFieldIsStored ==
    (ret.op \in FieldOps /\ ret.st = "returned") =>
        /\ contains_key(fields, ret.val.name)
        /\ fields[ret.val.name] = ret.val
        /\ ret.val \in get_used_viper_fields

\* the predicates of the output that carry a given name
Defined(name) == {p \in get_used_viper_predicates : p.name = name}

\* C25: whenever no type-predicate request is in progress, every predicate
\* name registered in type_predicate_names has a body stored under it in
\* type_predicates; so the name a call of encode_type_predicate_use has
\* returned, and the type name in the field a call of encode_ref_field has
\* returned, is the name of a predicate of the output.
C25_NamesHaveBodies ==
    /\ stack = <<>> =>
          \A ty \in DOMAIN type_predicate_names :
             /\ contains_key(type_predicates, type_predicate_names[ty])
             /\ Defined(type_predicate_names[ty]) # {}
    /\ (ret.op = "encode_type_predicate_use" /\ ret.st = "returned") =>
          Defined(ret.val.name) # {}
    /\ (ret.op = "encode_ref_field" /\ ret.st = "returned") =>
          Defined(ret.val.type.typed_ref) # {}

\* reached: encode_ref_field has returned for a type whose field has another
\* type, both names are registered and no request is in progress
C25_Witness ==
    /\ stack = <<>>
    /\ ret.op = "encode_ref_field" /\ ret.st = "returned"
    /\ DOMAIN type_predicate_names = Ty
    /\ \E ty \in Ty :
          /\ ret.val.type.typed_ref = type_names[ty]
          /\ \E j \in 1..Len(type_decls[ty]) : type_decls[ty][j] # ty
    /\ Cardinality(DOMAIN type_predicates) = 2

====
